---- MODULE Spec2Model ----
(***************************************************************************)
(* easy-analysis: the k-means workflow wrapper (easy_analysis/cluster.py), *)
(* the IQR outlier extraction (easy_analysis/data/outliers.py) and the     *)
(* describe helpers (easy_analysis/data/summary.py).                       *)
(*                                                                         *)
(* Numbers that are floats in the program are fixed-point integers here:   *)
(* scaled cells in units of 1/Precision, summary statistics in units of    *)
(* 1/1000 (the program rounds them to 3 digits), quartiles in units of 1/4 *)
(* (exact for integer cells).                                              *)
(***************************************************************************)
EXTENDS Integers, Sequences, FiniteSets, TLC

VARIABLES
    df,          \* the DataFrame about to be handed to ClusterAnalyzer(...)
    pc,          \* "new" (not constructed), "failed" (the constructor raised),
                 \* "ready" (constructed, idle), "returned" (a method call ended)
    self,        \* the instance's attributes: attribute name -> value
    raised,      \* the exception the last call ended with, or NoError
    ret,         \* the value the last call returned, or None
    call,        \* the last call made: its name and arguments
    scaled0,     \* history: what __scale_df returned in the constructor
    rows0,       \* history: the number of rows of the constructor's DataFrame
    scale_calls, \* history: number of times __scale_df has been entered
    np_random,   \* numpy's global generator state (used when no seed is given)
    first,       \* history: a (k, label vector) pair get_clusters returned earlier
    odf,         \* outliers.py: the DataFrame handed to extract_outliers
    ocol,        \* outliers.py: the col argument, None before the call
    oret,        \* outliers.py: the DataFrame extract_outliers returned
    data1,       \* summary.py: the first Series (or the only one)
    data2,       \* summary.py: the second Series
    dcall,       \* summary.py: the call made on them and its flag
    dret,        \* summary.py: the DataFrame that call returned
    pcolumns,    \* multivariate.py: the list of column names at hand
    pcall,       \* multivariate.py: the call made with it and its other arguments
    pret         \* multivariate.py: the figures that call made, or its error

vars == <<df, pc, self, raised, ret, call, scaled0, rows0, scale_calls,
          np_random, first, odf, ocol, oret, data1, data2, dcall, dret,
          pcolumns, pcall, pret>>

clusterVars == <<df, pc, self, raised, ret, call, scaled0, rows0,
                 scale_calls, np_random, first>>
outlierVars == <<odf, ocol, oret>>
summaryVars == <<data1, data2, dcall, dret>>
plotVars == <<pcolumns, pcall, pret>>

----------------------------------------------------------------------------
(* Bounds of the model *)

MaxRows == 2
Precision == 100
MaxOutlierRows == 4

\* an optional value: <<v>> when present, <<>> when missing (NaN, None)
Some(v) == <<v>>
Null == <<>>
None == <<>>
ColNames == <<"a", "b">>
CellValues == {0, 1}
Dtypes == {"float64", "object", "category", "datetime64"}
ScalerTypes == {"StandardScaler", "RobustScaler", "MinMaxScaler"}

----------------------------------------------------------------------------
(* Generic helpers *)

RECURSIVE SumSeq(_)
SumSeq(s) == IF s = <<>> THEN 0 ELSE Head(s) + SumSeq(Tail(s))

Abs(x) == IF x < 0 THEN -x ELSE x

\* integer division rounding toward zero, as a float truncated to fixed point
Quot(a, b) == IF (a >= 0) = (b > 0) THEN Abs(a) \div Abs(b) ELSE -(Abs(a) \div Abs(b))

\* the integer square root of v, searched between lo and hi
RECURSIVE IsqrtFrom(_, _, _)
IsqrtFrom(v, lo, hi) ==
    IF lo >= hi THEN lo
    ELSE LET mid == (lo + hi + 1) \div 2
         IN  IF mid * mid <= v THEN IsqrtFrom(v, mid, hi) ELSE IsqrtFrom(v, lo, mid - 1)
Isqrt(v) == IsqrtFrom(v, 0, IF v < 46340 THEN v ELSE 46340)

RECURSIVE InsertSorted(_, _)
InsertSorted(x, s) ==
    IF s = <<>> THEN <<x>>
    ELSE IF x <= Head(s) THEN <<x>> \o s
    ELSE <<Head(s)>> \o InsertSorted(x, Tail(s))

RECURSIVE SortAsc(_)
SortAsc(s) == IF s = <<>> THEN <<>> ELSE InsertSorted(Head(s), SortAsc(Tail(s)))

\* 4 * (the q-th quartile of xs), q in 1..3, by linear interpolation between
\* the order statistics at position q*(n-1)/4 (pandas/numpy default)
Quartile4(xs, q) ==
    LET srt == SortAsc(xs)
        n == Len(xs)
        f == (q * (n - 1)) \div 4
        r == (q * (n - 1)) % 4
    IN  IF r = 0 THEN 4 * srt[f + 1]
        ELSE 4 * srt[f + 1] + r * (srt[f + 2] - srt[f + 1])

----------------------------------------------------------------------------
(* cluster.py: the input tables *)

\* a DataFrame: n rows, and columns each with a name, a dtype and n cells
Cells == {Some(v) : v \in CellValues} \cup {Null}

Table(n, dtypes, cells) ==
    [n |-> n,
     cols |-> [j \in 1..Len(dtypes) |->
                  [name |-> ColNames[j], dtype |-> dtypes[j], cells |-> cells[j]]]]

----------------------------------------------------------------------------
(* core/_errors.py: the exception classes, and the library errors that pass *)
(* through the wrapper                                                      *)

NoError == [type |-> "none", cols |-> <<>>]
Error(type, cols) == [type |-> type, cols |-> cols]

\* the direct base class of each exception type
ExceptionBase(type) ==
    CASE type = "NullInDataFrame" -> "ClusterAnalyzerException"
      [] type = "DFNotEncoded" -> "ClusterAnalyzerException"
      [] type = "ClusterAnalyzerException" -> "Exception"
      [] type = "InvalidParameterError" -> "ValueError"
      [] type = "ValueError" -> "Exception"
      [] type = "TypeError" -> "Exception"
      [] OTHER -> "Exception"

IsClusterAnalyzerException(type) ==
    \/ type = "ClusterAnalyzerException"
    \/ ExceptionBase(type) = "ClusterAnalyzerException"

----------------------------------------------------------------------------
(* cluster.py: ClusterAnalyzer.__validate_df *)

RECURSIVE CountNull(_)
CountNull(cells) ==
    IF cells = <<>> THEN 0
    ELSE (IF Head(cells) = Null THEN 1 ELSE 0) + CountNull(Tail(cells))

\* data.isnull().sum().sum()
isnull_sum(data) == SumSeq([j \in 1..Len(data.cols) |-> CountNull(data.cols[j].cells)])

IsNotEncoded(col) == col.dtype \in {"object", "category"}
IsObject(col) == col.dtype = "object"

\* mutant: only the object columns are selected
not_encoded_cols_object_only(data) ==
    LET sel == SelectSeq(data.cols, IsObject)
    IN  [j \in 1..Len(sel) |-> sel[j].name]

\* data.select_dtypes(["object", "category"]).columns.tolist()
not_encoded_cols(data) ==
    LET sel == SelectSeq(data.cols, IsNotEncoded)
    IN  [j \in 1..Len(sel) |-> sel[j].name]

\* mutant: the encoding check runs before the null check
validate_df_encoding_first(data) ==
    IF Len(not_encoded_cols(data)) > 0
    THEN Error("DFNotEncoded", not_encoded_cols(data))
    ELSE IF isnull_sum(data) > 0 THEN Error("NullInDataFrame", <<>>)
         ELSE NoError

\* the exception __validate_df raises, or NoError
validate_df(data) ==
    IF isnull_sum(data) > 0 THEN Error("NullInDataFrame", <<>>)
    ELSE IF Len(not_encoded_cols(data)) > 0
         THEN Error("DFNotEncoded", not_encoded_cols(data))
         ELSE NoError

----------------------------------------------------------------------------
(* cluster.py: ClusterAnalyzer.__scale_df, the three scalers column-wise, *)
(* each cell in units of 1/Precision                                       *)

Min(xs) == CHOOSE x \in {xs[i] : i \in 1..Len(xs)} : \A i \in 1..Len(xs) : x <= xs[i]
Max(xs) == CHOOSE x \in {xs[i] : i \in 1..Len(xs)} : \A i \in 1..Len(xs) : x >= xs[i]

\* (x - mean) / std, std the population standard deviation, a zero std taken as 1
StandardScale(xs) ==
    LET n == Len(xs)
        sum == SumSeq(xs)
        v == n * SumSeq([i \in 1..n |-> xs[i] * xs[i]]) - sum * sum  \* n^2 * variance
    IN  [i \in 1..n |->
            LET d == n * xs[i] - sum
            IN  IF v = 0 THEN Quot(Precision * d, n)
                ELSE (IF d < 0 THEN -1 ELSE 1) * Isqrt((Precision * Precision * d * d) \div v)]

\* (x - min) / (max - min), a zero range taken as 1
MinMaxScale(xs) ==
    LET lo == Min(xs)
        rng == Max(xs) - lo
    IN  [i \in 1..Len(xs) |-> Quot(Precision * (xs[i] - lo), IF rng = 0 THEN 1 ELSE rng)]

\* (x - median) / (Q3 - Q1), a zero inter-quartile range taken as 1
RobustScale(xs) ==
    LET med4 == Quartile4(xs, 2)
        iqr4 == Quartile4(xs, 3) - Quartile4(xs, 1)
    IN  [i \in 1..Len(xs) |->
            Quot(Precision * (4 * xs[i] - med4), IF iqr4 = 0 THEN 4 ELSE iqr4)]

ScaleColumn(xs, scaler_type) ==
    CASE scaler_type = "StandardScaler" -> StandardScale(xs)
      [] scaler_type = "RobustScaler" -> RobustScale(xs)
      [] scaler_type = "MinMaxScaler" -> MinMaxScale(xs)

\* the numbers of a column without missing cells
CellNumbers(cells) == [i \in 1..Len(cells) |-> cells[i][1]]

\* scaler.fit_transform(df): the matrix as a sequence of rows
scale_df(data, scaler_type) ==
    LET sc == [j \in 1..Len(data.cols) |->
                  ScaleColumn(CellNumbers(data.cols[j].cells), scaler_type)]
    IN  [i \in 1..data.n |-> [j \in 1..Len(data.cols) |-> sc[j][i]]]

\* a column the validation lets through although it holds no numbers
HasOtherDtype(data) == \E j \in 1..Len(data.cols) : data.cols[j].dtype = "datetime64"

----------------------------------------------------------------------------
(* sklearn.cluster.KMeans as the wrapper uses it: KMeans(n_clusters, init = *)
(* "k-means++", n_init, random_state).fit(X), .inertia_ and .predict(X).    *)
(* The library is outside the repository; it is modelled by its contract:   *)
(* parameter validation, seeded k-means++ choice of the centres among the   *)
(* rows, the best of n_init runs, nearest-centre labels and the inertia as  *)
(* the sum of squared distances. Lloyd's refinement of the centres is not   *)
(* modelled.                                                                *)

n_init == 10

\* mutant: no seed is passed, the fit draws from the global generator
random_state_unset == None

random_state == Some(42)

\* the generator: a linear congruential step
Rand(s) == (75 * s + 74) % 65537

SqDist(x, y) == SumSeq([j \in 1..Len(x) |-> (x[j] - y[j]) * (x[j] - y[j])])

\* squared distance of row x to the nearest of the centres (rows)
RECURSIVE NearestDist(_, _)
NearestDist(x, centers) ==
    IF Len(centers) = 1 THEN SqDist(x, centers[1])
    ELSE LET d == SqDist(x, Head(centers))
             e == NearestDist(x, Tail(centers))
         IN  IF d <= e THEN d ELSE e

\* the 0-based position of the nearest centre, the first among equals
Nearest(x, centers) ==
    CHOOSE c \in 0..(Len(centers) - 1) :
        /\ SqDist(x, centers[c + 1]) = NearestDist(x, centers)
        /\ \A b \in 0..(c - 1) : SqDist(x, centers[b + 1]) > NearestDist(x, centers)

\* the first index whose cumulative weight exceeds t
RECURSIVE PickWeighted(_, _, _)
PickWeighted(w, t, i) ==
    IF i >= Len(w) \/ w[i] > t THEN i ELSE PickWeighted(w, t - w[i], i + 1)

\* k-means++: the first centre uniformly, each further one with probability
\* proportional to its squared distance to the centres chosen so far
RECURSIVE KMeansPlusPlus(_, _, _, _)
KMeansPlusPlus(X, k, s, centers) ==
    IF Len(centers) = k THEN centers
    ELSE LET s1 == Rand(s)
             w == [i \in 1..Len(X) |-> IF centers = <<>> THEN 1 ELSE NearestDist(X[i], centers)]
             pot == SumSeq(w)
             idx == IF pot = 0 THEN 1 + (s1 % Len(X)) ELSE PickWeighted(w, s1 % pot, 1)
         IN  KMeansPlusPlus(X, k, s1, Append(centers, X[idx]))

Inertia(X, centers) == SumSeq([i \in 1..Len(X) |-> NearestDist(X[i], centers)])

\* kmeans.predict(X): the label of every row
predict(centers, X) == [i \in 1..Len(X) |-> Nearest(X[i], centers)]

\* one run: the centres chosen from the seed, and their inertia
Fitted(X, centers) == [centers |-> centers, inertia |-> Inertia(X, centers)]
Run(X, k, seed) == Fitted(X, KMeansPlusPlus(X, k, seed, <<>>))

Better(run, best) ==
    IF best.centers = <<>> \/ run.inertia < best.inertia THEN run ELSE best

\* the best of the runs left, each run seeded from the generator's stream
RECURSIVE BestRun(_, _, _, _, _)
BestRun(X, k, s, runs, best) ==
    IF runs = 0 THEN best
    ELSE BestRun(X, k, Rand(s), runs - 1, Better(Run(X, k, Rand(s)), best))

RECURSIVE RandN(_, _)
RandN(s, n) == IF n = 0 THEN s ELSE RandN(Rand(s), n - 1)

\* KMeans(n_clusters = k, random_state = rs).fit(X) with the global generator
\* in state g: the error raised or the fitted centres and inertia, and the
\* global generator's state afterwards (a seed given makes a private generator)
KMeansFit(X, k, rs, g) ==
    IF k < 1 THEN [err |-> Error("InvalidParameterError", <<>>), centers |-> <<>>,
                   inertia |-> 0, global |-> g]
    ELSE IF Len(X) < k THEN [err |-> Error("ValueError", <<>>), centers |-> <<>>,
                             inertia |-> 0, global |-> g]
    ELSE [err |-> NoError, global |-> IF rs = None THEN RandN(g, n_init) ELSE g]
         @@ BestRun(X, k, IF rs = None THEN g ELSE rs[1], n_init,
                    [centers |-> <<>>, inertia |-> 0])

----------------------------------------------------------------------------
(* cluster.py: the methods of ClusterAnalyzer as functions of the instance *)

NoReturn == [kind |-> "none", val |-> <<>>]
NoAttrs == [a \in {} |-> <<>>]

\* ClusterAnalyzer.__init__(data, scaler_type=...): the exception raised, the
\* attributes of the instance afterwards and the number of __scale_df calls.
\* scales is the outcome of the scaler on a column that holds no numbers and
\* passed validation (the scaler either converts it or raises TypeError).
init(data, scaler_type, scales) ==
    IF validate_df(data) # NoError
    THEN [err |-> validate_df(data), self |-> NoAttrs, scale_calls |-> 0]
    ELSE IF HasOtherDtype(data) /\ ~scales
    THEN [err |-> Error("TypeError", <<>>), self |-> NoAttrs, scale_calls |-> 1]
    ELSE [err |-> NoError, self |-> [data |-> scale_df(data, scaler_type)],
          scale_calls |-> 1]

\* range(start, stop) as the sequence of its members
Range(start, stop) == [i \in 1..(IF stop > start THEN stop - start ELSE 0) |-> start + i - 1]

\* the arguments find_optimal_clusters is called with: a range, some other
\* sequence, or nothing (the default, Ellipsis)
IsRange(arg) == arg.kind = "range"
Members(arg) == IF IsRange(arg) THEN Range(arg.start, arg.stop) ELSE arg.items

\* the loop of find_optimal_clusters over the candidates left; km is the
\* fit for the first of them
RECURSIVE ScanLoop(_, _, _, _)

\* mutant: the inertia is put at the front of the list
ScanStep_prepend(X, cands, wcss, km) ==
    IF km.err # NoError THEN [err |-> km.err, wcss |-> wcss, global |-> km.global]
    ELSE ScanLoop(X, Tail(cands), <<km.inertia>> \o wcss, km.global)

ScanStep(X, cands, wcss, km) ==
    IF km.err # NoError THEN [err |-> km.err, wcss |-> wcss, global |-> km.global]
    ELSE ScanLoop(X, Tail(cands), Append(wcss, km.inertia), km.global)

ScanLoop(X, cands, wcss, g) ==
    IF cands = <<>> THEN [err |-> NoError, wcss |-> wcss, global |-> g]
    ELSE ScanStep(X, cands, wcss, KMeansFit(X, Head(cands), random_state, g))

ScanResult(slf, loop) ==
    [err |-> loop.err,
     ret |-> IF loop.err = NoError THEN [kind |-> "list", val |-> loop.wcss] ELSE NoReturn,
     self |-> slf, global |-> loop.global]

\* ClusterAnalyzer.find_optimal_clusters(cluster_range)
find_optimal_clusters(slf, cluster_range, g) ==
    ScanResult(slf, ScanLoop(slf.data,
                             IF ~IsRange(cluster_range)
                             THEN Range(1, Len(slf.data[1]) + 1)
                             ELSE Members(cluster_range),
                             <<>>, g))

AssignResult(slf, km) ==
    [err |-> km.err,
     ret |-> IF km.err = NoError
             THEN [kind |-> "ndarray", val |-> predict(km.centers, slf.data)]
             ELSE NoReturn,
     self |-> slf, global |-> km.global]

\* mutant: a count below 1 is raised to 1
get_clusters_at_least_one(slf, best_n_clusters, g) ==
    AssignResult(slf, KMeansFit(slf.data, IF best_n_clusters < 1 THEN 1 ELSE best_n_clusters,
                                random_state, g))

\* mutant: one cluster too many is fitted
get_clusters_one_more(slf, best_n_clusters, g) ==
    AssignResult(slf, KMeansFit(slf.data, best_n_clusters + 1, random_state, g))

\* mutant: the fitted centres are kept on the instance
KeepModel(r, km) ==
    [r EXCEPT !.self = IF km.err = NoError
                       THEN [data |-> r.self.data, kmeans |-> km.centers]
                       ELSE r.self]
get_clusters_keeps_model(slf, best_n_clusters, g) ==
    KeepModel(AssignResult(slf, KMeansFit(slf.data, best_n_clusters, random_state, g)),
              KMeansFit(slf.data, best_n_clusters, random_state, g))

\* ClusterAnalyzer.get_clusters(best_n_clusters)
get_clusters(slf, best_n_clusters, g) ==
    AssignResult(slf, KMeansFit(slf.data, best_n_clusters, random_state, g))

----------------------------------------------------------------------------
(* The calls a client makes on one table and one instance *)

KArgs == (-1)..(MaxRows + 1)

ScanArg(kind, start, stop, items) ==
    [kind |-> kind, start |-> start, stop |-> stop, items |-> items]

ScanArgs ==
    {ScanArg("ellipsis", 0, 0, <<>>)}
    \cup {ScanArg("range", r[1], r[2], <<>>) :
             r \in {<<1, 1>>, <<0, 2>>, <<2, 4>>, <<1, MaxRows + 1>>, <<1, MaxRows + 2>>}}
    \cup {ScanArg("list", 0, 0, l) : l \in {<<1, 2, 3>>, <<2, 2>>, <<1>>}}

NoCall == [op |-> "none", k |-> 0, arg |-> ScanArg("ellipsis", 0, 0, <<>>),
           scaler_type |-> "none"]
NoTable == [n |-> 0, cols |-> <<>>]
NoFirst == [k |-> 0, labels |-> <<>>]

\* the other modules before anything is called on them
NoSeries == [name |-> "", cells |-> <<>>]
NoSummaryCall == [op |-> "none", reciprocal_ratio |-> FALSE, frame |-> FALSE]
NoFrame == [index |-> <<>>, cols |-> <<>>]
NoPlotCall == [op |-> "none", title |-> <<>>, y |-> <<>>, agg |-> <<>>]
NoFigures == [err |-> "none", figs |-> <<>>, shown |-> FALSE]
PlotIdle ==
    /\ pcolumns = <<>>
    /\ pcall = NoPlotCall
    /\ pret = NoFigures

SummaryIdle ==
    /\ data1 = NoSeries
    /\ data2 = NoSeries
    /\ dcall = NoSummaryCall
    /\ dret = NoFrame
OutlierIdle ==
    /\ odf = <<>>
    /\ ocol = None
    /\ oret = <<>>
ClusterIdle ==
    /\ df = NoTable
    /\ pc = "new"
    /\ self = NoAttrs
    /\ raised = NoError
    /\ ret = NoReturn
    /\ call = NoCall
    /\ scaled0 = <<>>
    /\ rows0 = 0
    /\ scale_calls = 0
    /\ np_random = 1
    /\ first = NoFirst

Init ==
    /\ \E n \in 1..MaxRows, m \in 1..Len(ColNames) :
          \E dtypes \in [1..m -> Dtypes], cells \in [1..m -> [1..n -> Cells]] :
              df = Table(n, dtypes, cells)
    /\ pc = "new"
    /\ self = NoAttrs
    /\ raised = NoError
    /\ ret = NoReturn
    /\ call = NoCall
    /\ scaled0 = <<>>
    /\ rows0 = 0
    /\ scale_calls = 0
    /\ np_random = 1
    /\ first = NoFirst
    /\ OutlierIdle
    /\ SummaryIdle
    /\ PlotIdle

\* analyzer = ClusterAnalyzer(df, scaler_type=...)
Construct ==
    /\ pc = "new"
    /\ \E scaler_type \in ScalerTypes, scales \in BOOLEAN :
          \E r \in {init(df, scaler_type, scales)} :
              /\ raised' = r.err
              /\ self' = r.self
              /\ scale_calls' = scale_calls + r.scale_calls
              /\ pc' = IF r.err = NoError THEN "ready" ELSE "failed"
              /\ scaled0' = IF r.err = NoError THEN r.self.data ELSE scaled0
              /\ call' = [NoCall EXCEPT !.op = "__init__", !.scaler_type = scaler_type]
    /\ rows0' = df.n
    /\ df' = NoTable
    /\ ret' = NoReturn
    /\ UNCHANGED <<np_random, first, outlierVars, summaryVars, plotVars>>

\* analyzer.find_optimal_clusters(...)
FindOptimalClusters ==
    /\ pc = "ready"
    /\ \E arg \in ScanArgs :
          \E r \in {find_optimal_clusters(self, arg, np_random)} :
              /\ raised' = r.err
              /\ ret' = r.ret
              /\ self' = r.self
              /\ np_random' = r.global
              /\ call' = [NoCall EXCEPT !.op = "find_optimal_clusters", !.arg = arg]
    /\ pc' = "returned"
    /\ UNCHANGED <<df, scaled0, rows0, scale_calls, first, outlierVars, summaryVars, plotVars>>

\* analyzer.get_clusters(k); the observer may note the first vector it sees
GetClusters ==
    /\ pc = "ready"
    /\ \E k \in KArgs :
          \E r \in {get_clusters(self, k, np_random)} :
              /\ raised' = r.err
              /\ ret' = r.ret
              /\ self' = r.self
              /\ np_random' = r.global
              /\ call' = [NoCall EXCEPT !.op = "get_clusters", !.k = k]
              /\ \/ first' = first
                 \/ /\ first = NoFirst
                    /\ r.err = NoError
                    /\ first' = [k |-> k, labels |-> r.ret.val]
    /\ pc' = "returned"
    /\ UNCHANGED <<df, scaled0, rows0, scale_calls, outlierVars, summaryVars, plotVars>>

\* the caller takes the result (or catches the exception) of a method call
Return ==
    /\ pc = "returned"
    /\ pc' = "ready"
    /\ raised' = NoError
    /\ ret' = NoReturn
    /\ call' = NoCall
    /\ UNCHANGED <<df, self, scaled0, rows0, scale_calls, np_random, first, outlierVars, summaryVars, plotVars>>

Next == Construct \/ FindOptimalClusters \/ GetClusters \/ Return

Spec == Init /\ [][Next]_vars

----------------------------------------------------------------------------
(* Vocabulary of the properties *)

Constructing == pc = "new" /\ pc' # "new"
Returned(op) == pc = "returned" /\ call.op = op
ValidCount(k) == 1 <= k /\ k <= rows0
SeqSet(q) == {q[i] : i \in 1..Len(q)}
NamesOfDtypes(t, dtypes) == {t.cols[j].name : j \in {i \in 1..Len(t.cols) : t.cols[i].dtype \in dtypes}}
HasNullCell(t) == \E j \in 1..Len(t.cols) : \E i \in 1..t.n : t.cols[j].cells[i] = Null
LibraryErrors == {"InvalidParameterError", "ValueError"}

----------------------------------------------------------------------------
(* C1: get_clusters(k) with k outside 1..rows fails with the wrapper's own *)
(* validation error InvalidClusterCount. As stated this fails: the wrapper *)
(* defines no such error and does not check k.                             *)
C1_InvalidClusterCount ==
    (Returned("get_clusters") /\ ~ValidCount(call.k))
        => (raised.type = "InvalidClusterCount" /\ IsClusterAnalyzerException(raised.type))

(* C1 amended: get_clusters(k) with k outside 1..rows fails, returns       *)
(* nothing and leaves the instance as it was, and the error is the         *)
(* clustering library's ValueError (InvalidParameterError for k < 1), not  *)
(* a ClusterAnalyzerException.                                             *)
C1_LibraryError ==
    (Returned("get_clusters") /\ ~ValidCount(call.k))
        => /\ raised.type \in LibraryErrors
           /\ raised.type = (IF call.k < 1 THEN "InvalidParameterError" ELSE "ValueError")
           /\ ~IsClusterAnalyzerException(raised.type)
           /\ ret = NoReturn

C1_Witness ==
    /\ Returned("get_clusters")
    /\ call.k = rows0 + 1
    /\ raised.type = "ValueError"

----------------------------------------------------------------------------
(* C2: find_optimal_clusters called with any caller-supplied sequence of   *)
(* cluster counts (each in 1..rows), a range or any other sequence,        *)
(* duplicates included, returns one inertia >= 0 per candidate, in the     *)
(* candidates' order. As stated this fails: a sequence that is not a range *)
(* is replaced by the default candidates.                                  *)
C2_OnePerCandidate ==
    (/\ Returned("find_optimal_clusters")
     /\ call.arg.kind \in {"range", "list"}
     /\ \A k \in SeqSet(Members(call.arg)) : ValidCount(k))
        => /\ raised = NoError
           /\ ret.kind = "list"
           /\ Len(ret.val) = Len(Members(call.arg))
           /\ \A i \in 1..Len(ret.val) : ret.val[i] >= 0

(* C2 amended: find_optimal_clusters called with a range whose members all *)
(* lie in 1..rows returns one inertia >= 0 per member, the i-th value the  *)
(* inertia of the fit for the i-th member; a supplied sequence that is not *)
(* a range is ignored and the default candidates 1..columns are scanned.   *)
C2_OnePerRangeMember ==
    Returned("find_optimal_clusters") =>
        /\ (IsRange(call.arg) /\ \A k \in SeqSet(Members(call.arg)) : ValidCount(k))
              => /\ raised = NoError
                 /\ ret.kind = "list"
                 /\ Len(ret.val) = Len(Members(call.arg))
                 /\ \A i \in 1..Len(ret.val) :
                       /\ ret.val[i] >= 0
                       /\ ret.val[i] = Inertia(scaled0, KMeansFit(scaled0, Members(call.arg)[i],
                                                                  Some(42), np_random).centers)
        /\ (~IsRange(call.arg) /\ raised = NoError)
              => Len(ret.val) = Len(scaled0[1])

C2_Witness ==
    /\ Returned("find_optimal_clusters")
    /\ call.arg = ScanArg("range", 1, 3, <<>>)
    /\ raised = NoError
    /\ Len(ret.val) = 2
    /\ ret.val[1] > ret.val[2]

----------------------------------------------------------------------------
(* C3: constructing with a table (without null cells) in which any column  *)
(* is non-numeric (categorical, text or any other non-numeric type) fails  *)
(* with DFNotEncoded naming every offending column. As stated this fails:  *)
(* a datetime column is not detected.                                      *)
C3_AnyNonNumeric ==
    [][(Constructing /\ ~HasNullCell(df) /\ NamesOfDtypes(df, Dtypes \ {"float64"}) # {})
          => /\ raised'.type = "DFNotEncoded"
             /\ SeqSet(raised'.cols) = NamesOfDtypes(df, Dtypes \ {"float64"})]_vars

(* C3 amended: constructing with a table without null cells in which any   *)
(* column has dtype object or category fails with DFNotEncoded, no scaled   *)
(* dataset is stored, and the error names every object or category column  *)
(* and no other column.                                                     *)
C3_ObjectOrCategory ==
    [][(Constructing /\ ~HasNullCell(df) /\ NamesOfDtypes(df, {"object", "category"}) # {})
          => /\ raised'.type = "DFNotEncoded"
             /\ IsClusterAnalyzerException(raised'.type)
             /\ SeqSet(raised'.cols) = NamesOfDtypes(df, {"object", "category"})
             /\ pc' = "failed"
             /\ self' = NoAttrs]_vars

C3_Witness ==
    /\ pc = "failed"
    /\ raised.type = "DFNotEncoded"
    /\ raised.cols = <<"a", "b">>

----------------------------------------------------------------------------
(* C4: constructing with a table with at least one null cell fails with    *)
(* NullInDataFrame, before any scaling is applied and without a scaled     *)
(* dataset stored on the instance.                                         *)
C4_NullValuesFirst ==
    [][(Constructing /\ HasNullCell(df))
          => /\ raised'.type = "NullInDataFrame"
             /\ IsClusterAnalyzerException(raised'.type)
             /\ pc' = "failed"
             /\ scale_calls' = 0
             /\ self' = NoAttrs]_vars

C4_Witness ==
    /\ pc = "failed"
    /\ raised.type = "NullInDataFrame"
    /\ scale_calls = 0
    /\ self = NoAttrs

----------------------------------------------------------------------------
(* C5: on a constructed wrapper, get_clusters(k) with 1 <= k <= rows       *)
(* returns a label vector with one label per row of the input table, every *)
(* label in 0..k-1.                                                        *)
C5_LabelVector ==
    (Returned("get_clusters") /\ ValidCount(call.k))
        => /\ raised = NoError
           /\ ret.kind = "ndarray"
           /\ Len(ret.val) = rows0
           /\ \A i \in 1..Len(ret.val) : 0 <= ret.val[i] /\ ret.val[i] < call.k

C5_Witness ==
    /\ Returned("get_clusters")
    /\ call.k = 2
    /\ rows0 = 2
    /\ SeqSet(ret.val) = {0, 1}

----------------------------------------------------------------------------
(* C6: after any sequence of find_optimal_clusters and get_clusters calls  *)
(* the instance holds the scaled dataset computed at construction and no   *)
(* other attribute.                                                        *)
C6_InstanceUnchanged ==
    pc \in {"ready", "returned"} => (DOMAIN self = {"data"} /\ self.data = scaled0)

C6_Witness ==
    /\ Returned("find_optimal_clusters")
    /\ raised = NoError
    /\ first # NoFirst
    /\ self.data = scaled0

----------------------------------------------------------------------------
(* C7: get_clusters(k) returns the same label vector as an earlier         *)
(* get_clusters(k) on the same instance, whatever was called in between.   *)
C7_SameLabelsAgain ==
    (Returned("get_clusters") /\ raised = NoError /\ first # NoFirst /\ first.k = call.k)
        => ret.val = first.labels

C7_Witness ==
    /\ Returned("get_clusters")
    /\ raised = NoError
    /\ first # NoFirst
    /\ first.k = call.k
    /\ SeqSet(ret.val) = {0, 1}
    /\ ret.val = first.labels

----------------------------------------------------------------------------
(* data/outliers.py: extract_outliers(df, col). A DataFrame is a sequence  *)
(* of rows, each with its index label idx and the cells A and B.           *)

Row(idx, a, b) == [idx |-> idx, A |-> a, B |-> b]
OutlierCols == {"A", "B"}
OutlierValues == {0, 1, 2}
OtherValues == {0, 1}

\* df[col] as a sequence of numbers
Column(d, col) == [i \in 1..Len(d) |-> d[i][col]]

\* 8 * lower_bound and 8 * upper_bound: q1 - 1.5 * iqr and q3 + 1.5 * iqr with
\* q1 and q3 in quarters
lower_bound8(xs) == 2 * Quartile4(xs, 1) - 3 * (Quartile4(xs, 3) - Quartile4(xs, 1))

\* mutant: the inter-quartile range is added once, not one and a half times
upper_bound8_one_iqr(xs) == 2 * Quartile4(xs, 3) + 2 * (Quartile4(xs, 3) - Quartile4(xs, 1))

upper_bound8(xs) == 2 * Quartile4(xs, 3) + 3 * (Quartile4(xs, 3) - Quartile4(xs, 1))

\* df[(df[col] < lower_bound) | (df[col] > upper_bound)]; the quantiles of an
\* empty column are NaN and no row is selected
outlier_rows(d, col) ==
    LET IsOutlier(r) == \/ 8 * r[col] < lower_bound8(Column(d, col))
                        \/ 8 * r[col] > upper_bound8(Column(d, col))
    IN  IF d = <<>> THEN <<>> ELSE SelectSeq(d, IsOutlier)

\* .sort_values(by=col, ascending=False): the orders the sort may produce
\* (quicksort: rows with equal values in any order)
sort_values_desc(d, col) ==
    {[i \in 1..Len(d) |-> d[p[i]]] :
        p \in {q \in [1..Len(d) -> 1..Len(d)] :
                  /\ \A i, j \in 1..Len(d) : i # j => q[i] # q[j]
                  /\ \A i \in 1..(Len(d) - 1) : d[q[i]][col] >= d[q[i + 1]][col]}}

\* .reset_index(drop=True)
reset_index(d) == [i \in 1..Len(d) |-> [d[i] EXCEPT !.idx = i - 1]]

\* the DataFrames extract_outliers(df, col) may return
extract_outliers(d, col) ==
    {reset_index(sorted) : sorted \in sort_values_desc(outlier_rows(d, col), col)}

\* a DataFrame with the default index 0..n-1
Frame(as, bs) == [i \in 1..Len(as) |-> Row(i - 1, as[i], bs[i])]

\* the docstring's example, the same without its outlier, a table whose
\* outliers are equal in column A, and one with an outlier on either side
DocExample == Frame(<<1, 2, 3, 4, 5, 100>>, <<10, 20, 30, 40, 50, 200>>)
NoOutlierExample == Frame(<<1, 2, 3, 4, 5>>, <<10, 20, 30, 40, 50>>)
TiedExample == Frame(<<50, 1, 1, 1, 1, 1, 1, 1, 50>>, <<1, 2, 3, 4, 5, 6, 7, 8, 9>>)
BothSidesExample == Frame(<<1, 0, 1, 2, 1>>, <<1, 2, 3, 4, 5>>)

OutlierInit ==
    /\ \/ odf \in {DocExample, NoOutlierExample, TiedExample, BothSidesExample}
       \/ \E n \in 0..MaxOutlierRows :
             \E as \in [1..n -> OutlierValues], bs \in [1..n -> OtherValues] :
                 odf = Frame(as, bs)
    /\ ocol = None
    /\ oret = <<>>
    /\ ClusterIdle
    /\ SummaryIdle
    /\ PlotIdle

\* outliers = extract_outliers(odf, col)
ExtractOutliers ==
    /\ ocol = None
    /\ \E col \in OutlierCols :
          /\ ocol' = Some(col)
          /\ oret' \in extract_outliers(odf, col)
    /\ UNCHANGED <<odf, clusterVars, summaryVars, plotVars>>

OutlierNext == ExtractOutliers

SpecOutliers == OutlierInit /\ [][OutlierNext]_vars

----------------------------------------------------------------------------
(* C8: extract_outliers(table, col) returns exactly the rows whose value   *)
(* in col is strictly below Q1 - 1.5*IQR or strictly above Q3 + 1.5*IQR,   *)
(* ordered descending by col and re-indexed 0..n-1; nothing for            *)
(* [1,2,3,4,5], and for [1,2,3,4,5,100] exactly the row holding 100.       *)
Cells2(d) == {<<d[i].A, d[i].B>> : i \in 1..Len(d)}
Count(d, c) == Cardinality({i \in 1..Len(d) : <<d[i].A, d[i].B>> = c})
\* v < Q1 - 1.5 * (Q3 - Q1) or v > Q3 + 1.5 * (Q3 - Q1), multiplied by 8
Outside(v, xs) ==
    \/ 8 * v < 5 * Quartile4(xs, 1) - 3 * Quartile4(xs, 3)
    \/ 8 * v > 5 * Quartile4(xs, 3) - 3 * Quartile4(xs, 1)
CountOutside(d, col, c) ==
    Cardinality({i \in 1..Len(d) : <<d[i].A, d[i].B>> = c /\ Outside(d[i][col], Column(d, col))})

C8_ExactlyTheOutliers ==
    ocol # None =>
        /\ \A c \in Cells2(odf) \cup Cells2(oret) : Count(oret, c) = CountOutside(odf, ocol[1], c)
        /\ \A i \in 1..(Len(oret) - 1) : oret[i][ocol[1]] >= oret[i + 1][ocol[1]]
        /\ \A i \in 1..Len(oret) : oret[i].idx = i - 1
        /\ (odf = NoOutlierExample /\ ocol = Some("A")) => oret = <<>>
        /\ (odf = DocExample /\ ocol = Some("A")) => oret = <<Row(0, 100, 200)>>

C8_Witness ==
    /\ ocol = Some("A")
    /\ odf = DocExample
    /\ oret = <<Row(0, 100, 200)>>


----------------------------------------------------------------------------
(* data/summary.py: the floats of a summary table. A finite float is the   *)
(* fraction n/d in lowest terms; NaN and the infinities are values of      *)
(* their own.                                                              *)

RECURSIVE Gcd(_, _)
Gcd(a, b) == IF b = 0 THEN a ELSE Gcd(b, a % b)

Num(n, d) ==
    LET g == Gcd(Abs(n), Abs(d))
    IN  [k |-> "num", n |-> (IF d < 0 THEN -n ELSE n) \div g, d |-> Abs(d) \div g]
NaN == [k |-> "nan", n |-> 0, d |-> 0]
Inf(sign) == [k |-> "inf", n |-> sign, d |-> 0]
Sign(n) == IF n < 0 THEN -1 ELSE 1

\* a - b
FloatSub(a, b) ==
    IF a.k = "nan" \/ b.k = "nan" THEN NaN
    ELSE IF a.k = "inf" /\ b.k = "inf" THEN (IF a.n = b.n THEN NaN ELSE a)
    ELSE IF a.k = "inf" THEN a
    ELSE IF b.k = "inf" THEN Inf(-b.n)
    ELSE Num(a.n * b.d - b.n * a.d, a.d * b.d)

\* a / b as Python divides two numbers of its own: a zero divisor is an error
FloatDiv_python(a, b) ==
    IF a.k = "nan" \/ b.k = "nan" THEN NaN
    ELSE IF a.k = "inf" THEN (IF b.k = "inf" THEN NaN ELSE Inf(a.n * Sign(b.n)))
    ELSE IF b.k = "inf" THEN Num(0, 1)
    ELSE IF b.n = 0 THEN [k |-> "ZeroDivisionError", n |-> 0, d |-> 0]
    ELSE Num(a.n * b.d, a.d * b.n)

\* a / b: a zero divisor gives an infinity, or NaN for 0 / 0, and no error
FloatDiv(a, b) ==
    IF a.k = "nan" \/ b.k = "nan" THEN NaN
    ELSE IF a.k = "inf" THEN (IF b.k = "inf" THEN NaN ELSE Inf(a.n * Sign(b.n)))
    ELSE IF b.k = "inf" THEN Num(0, 1)
    ELSE IF b.n = 0 THEN (IF a.n = 0 THEN NaN ELSE Inf(Sign(a.n)))
    ELSE Num(a.n * b.d, a.d * b.n)

\* floor(p * 10^digits / q) and the remainder, digit by digit (p >= 0, q > 0)
RECURSIVE LongDiv(_, _, _)
LongDiv(p, q, digits) ==
    IF digits = 0 THEN [q |-> p \div q, r |-> p % q]
    ELSE LET h == LongDiv(p, q, digits - 1)
         IN  [q |-> 10 * h.q + (10 * h.r) \div q, r |-> (10 * h.r) % q]

\* round(p / q, 3): to the nearest thousandth, a tie to the even one
Round3(p, q) ==
    LET h == LongDiv(Abs(p), q, 3)
        up == 2 * h.r > q \/ (2 * h.r = q /\ h.q % 2 = 1)
    IN  Num(Sign(p) * (h.q + (IF up THEN 1 ELSE 0)), 1000)

\* round(sqrt(p / q), 3)
RoundSqrt3(p, q) ==
    LET g == Gcd(p, q)
        h == LongDiv(p \div g, q \div g, 6)
        t == Isqrt(h.q)
        up == h.q > t * t + t \/ (h.q = t * t + t /\ 4 * h.r >= q \div g)
    IN  Num(t + (IF up THEN 1 ELSE 0), 1000)

----------------------------------------------------------------------------
(* data/summary.py: the statistics of one column (pandas describe, skew,   *)
(* kurt), each rounded to 3 digits as custom_describe rounds its table     *)

\* the cells of a Series that are not null, as numbers
RECURSIVE Present(_)
Present(cells) ==
    IF cells = <<>> THEN <<>>
    ELSE (IF Head(cells) = Null THEN <<>> ELSE <<Head(cells)[1]>>) \o Present(Tail(cells))

Squares(xs) == [i \in 1..Len(xs) |-> xs[i] * xs[i]]

\* n * x - sum for every x: the deviations from the mean, times n, and the
\* same divided by their common divisor (skew and kurt do not depend on scale)
Deviations(xs) == [i \in 1..Len(xs) |-> Len(xs) * xs[i] - SumSeq(xs)]
RECURSIVE GcdSeq(_)
GcdSeq(xs) == IF xs = <<>> THEN 0 ELSE Gcd(Abs(Head(xs)), GcdSeq(Tail(xs)))
UnitDeviations(xs) ==
    LET dv == Deviations(xs)
        g == GcdSeq(dv)
    IN  [i \in 1..Len(xs) |-> IF g = 0 THEN 0 ELSE dv[i] \div g]
PowerSum(as, e) ==
    SumSeq([i \in 1..Len(as) |->
               IF e = 2 THEN as[i] * as[i]
               ELSE IF e = 3 THEN as[i] * as[i] * as[i]
               ELSE as[i] * as[i] * as[i] * as[i]])

StatCount(xs) == Num(Len(xs), 1)
StatMean(xs) == IF xs = <<>> THEN NaN ELSE Round3(SumSeq(xs), Len(xs))

\* the sample standard deviation (ddof = 1)
StatStd(xs) ==
    IF Len(xs) < 2 THEN NaN
    ELSE RoundSqrt3(Len(xs) * SumSeq(Squares(xs)) - SumSeq(xs) * SumSeq(xs),
                    Len(xs) * (Len(xs) - 1))

StatMin(xs) == IF xs = <<>> THEN NaN ELSE Num(Min(xs), 1)
StatMax(xs) == IF xs = <<>> THEN NaN ELSE Num(Max(xs), 1)

\* the p-th percentile by linear interpolation at position p * (n - 1) / 100
StatPercentile(xs, p) ==
    IF xs = <<>> THEN NaN
    ELSE LET srt == SortAsc(xs)
             f == (p * (Len(xs) - 1)) \div 100
             r == (p * (Len(xs) - 1)) % 100
         IN  IF r = 0 THEN Num(srt[f + 1], 1)
             ELSE Round3(100 * srt[f + 1] + r * (srt[f + 2] - srt[f + 1]), 100)

\* Series.skew(): n * sqrt(n - 1) / (n - 2) * m3 / m2^1.5, 0 for a constant
\* column, NaN for fewer than 3 values
StatSkew(xs) ==
    LET n == Len(xs)
        a2 == PowerSum(UnitDeviations(xs), 2)
        a3 == PowerSum(UnitDeviations(xs), 3)
        root == RoundSqrt3(n * n * (n - 1) * a3 * a3, (n - 2) * (n - 2) * a2 * a2 * a2)
    IN  IF n < 3 THEN NaN
        ELSE IF a2 = 0 \/ a3 = 0 THEN Num(0, 1)
        ELSE Num(Sign(a3) * root.n, root.d)

\* Series.kurt(): n(n+1)(n-1) m4 / ((n-2)(n-3) m2^2) - 3(n-1)^2 / ((n-2)(n-3)),
\* 0 for a constant column, NaN for fewer than 4 values
StatKurt(xs) ==
    LET n == Len(xs)
        a2 == PowerSum(UnitDeviations(xs), 2)
        a4 == PowerSum(UnitDeviations(xs), 4)
    IN  IF n < 4 THEN NaN
        ELSE IF a2 = 0 THEN Num(0, 1)
        ELSE Round3(n * (n + 1) * (n - 1) * a4 - 3 * (n - 1) * (n - 1) * a2 * a2,
                    (n - 2) * (n - 3) * a2 * a2)

Percentiles == <<1, 5, 25, 50, 75, 95, 99>>
PercentLabels == <<"1%", "5%", "25%", "50%", "75%", "95%", "99%">>

\* data.describe(percentiles=[0.01, 0.05, 0.25, 0.50, 0.75, 0.95, 0.99])
DescribeIndex == <<"count", "mean", "std", "min">> \o PercentLabels \o <<"max">>
Describe(xs) ==
    <<StatCount(xs), StatMean(xs), StatStd(xs), StatMin(xs)>>
    \o [i \in 1..Len(Percentiles) |-> StatPercentile(xs, Percentiles[i])]
    \o <<StatMax(xs)>>

\* more_describe: skew, kurt and the counts of non-null and null cells
MoreIndex == <<"skew", "kurtosis", "notnull", "isnull">>
MoreDescribe(cells) ==
    <<StatSkew(Present(cells)), StatKurt(Present(cells)),
      Num(Len(Present(cells)), 1), Num(CountNull(cells), 1)>>

\* A Series is [name, cells], its name None when it was given none; a
\* DataFrame is [columns], a sequence of Series of one length
IsSeries(data) == "cells" \in DOMAIN data
DataFrame(columns) == [columns |-> columns]

\* f"{name}": the text of a Series' name
Format(name) == IF name = None THEN "None" ELSE name[1]

\* data.to_frame(): a frame of one column, labelled 0 for a Series without name
to_frame(data) ==
    DataFrame(<<[name |-> IF data.name = None THEN Some("0") ELSE data.name,
                 cells |-> data.cells]>>)

\* custom_describe with the two tables concatenated the other way round
custom_describe_more_first(data) ==
    LET frame == IF IsSeries(data) THEN to_frame(data) ELSE data
    IN  [index |-> MoreIndex \o DescribeIndex,
         cols |-> [j \in 1..Len(frame.columns) |->
                      [name |-> <<frame.columns[j].name[1]>>,
                       vals |-> MoreDescribe(frame.columns[j].cells)
                                \o Describe(Present(frame.columns[j].cells))]]]

\* custom_describe(data): one column per column of data, the rows of describe
\* and then the rows of more_describe, rounded to 3 digits
custom_describe(data) ==
    LET frame == IF IsSeries(data) THEN to_frame(data) ELSE data
    IN  [index |-> DescribeIndex \o MoreIndex,
         cols |-> [j \in 1..Len(frame.columns) |->
                      [name |-> <<frame.columns[j].name[1]>>,
                       vals |-> Describe(Present(frame.columns[j].cells))
                                \o MoreDescribe(frame.columns[j].cells)]]]

\* s.rename(name), a.sub(b), a.div(b) on columns with the same row labels
Rename(col, name) == [name |-> name, vals |-> col.vals]
SeriesSub(a, b) == [name |-> a.name, vals |-> [i \in 1..Len(a.vals) |-> FloatSub(a.vals[i], b.vals[i])]]
SeriesDiv_reversed(a, b) == [name |-> a.name, vals |-> [i \in 1..Len(a.vals) |-> FloatDiv(b.vals[i], a.vals[i])]]
SeriesDiv(a, b) == [name |-> a.name, vals |-> [i \in 1..Len(a.vals) |-> FloatDiv(a.vals[i], b.vals[i])]]

\* compare_describe(data1, data2, reciprocal_ratio=...)
compare_describe(d1, d2, reciprocal_ratio) ==
    LET t1 == custom_describe(d1)
        desc1 == Rename(t1.cols[1], <<Format(d1.name), " as data1">>)
        desc2 == Rename(custom_describe(d2).cols[1], <<Format(d2.name), " as data2">>)
        sub_desc == Rename(SeriesSub(desc1, desc2), <<"data1 - data2">>)
        ratio_desc == Rename(SeriesDiv(desc1, desc2), <<"data1 / data2">>)
        to_concat == <<desc1, desc2, sub_desc, ratio_desc>>
    IN  [index |-> t1.index,
         cols |-> IF reciprocal_ratio
                  THEN Append(to_concat, Rename(SeriesDiv(desc2, desc1), <<"data2 / data1">>))
                  ELSE to_concat]

----------------------------------------------------------------------------
(* data/summary.py: the calls. data1 and data2 are the two Series at hand; *)
(* a call describes one of them, the frame of both, or compares them.      *)

MaxSeries == 3
SeriesCells == {Null, Some(0), Some(1)}
SeriesOf(name, xs) == [name |-> name, cells |-> [i \in 1..Len(xs) |-> Some(xs[i])]]

\* the Series of the docstring example of compare_describe, and its reverse
Example1 == SeriesOf(None, <<1, 2, 3, 4, 5>>)
Example2 == SeriesOf(None, <<2, 4, 6, 8, 10>>)
Example3 == SeriesOf(Some("c"), <<5, 4, 3, 2, 1>>)

DescribeInit ==
    /\ \/ /\ data1 \in {Example1, Example3}
          /\ data2 \in {Example2, Example3}
       \/ \E n \in 0..MaxSeries, m \in 0..MaxSeries, named \in BOOLEAN :
             /\ data1 \in [name : {IF named THEN Some("a") ELSE None},
                           cells : [1..n -> SeriesCells]]
             /\ data2 \in [name : {IF named THEN Some("b") ELSE None},
                           cells : [1..m -> SeriesCells]]
    /\ dcall = NoSummaryCall
    /\ dret = NoFrame
    /\ ClusterIdle
    /\ OutlierIdle
    /\ PlotIdle

\* custom_describe(data1)
CustomDescribe ==
    /\ dcall = NoSummaryCall
    /\ dcall' = [op |-> "custom_describe", reciprocal_ratio |-> FALSE, frame |-> FALSE]
    /\ dret' = custom_describe(data1)
    /\ UNCHANGED <<data1, data2, clusterVars, outlierVars, plotVars>>

\* custom_describe(pd.DataFrame({...: data1, ...: data2}))
CustomDescribeFrame ==
    /\ dcall = NoSummaryCall
    /\ Len(data1.cells) = Len(data2.cells)
    /\ data1.name # None /\ data2.name # None
    /\ dcall' = [op |-> "custom_describe", reciprocal_ratio |-> FALSE, frame |-> TRUE]
    /\ dret' = custom_describe(DataFrame(<<data1, data2>>))
    /\ UNCHANGED <<data1, data2, clusterVars, outlierVars, plotVars>>

\* compare_describe(data1, data2, reciprocal_ratio=...)
CompareDescribe ==
    /\ dcall = NoSummaryCall
    /\ \E reciprocal_ratio \in BOOLEAN :
          /\ dcall' = [op |-> "compare_describe", reciprocal_ratio |-> reciprocal_ratio,
                       frame |-> FALSE]
          /\ dret' = compare_describe(data1, data2, reciprocal_ratio)
    /\ UNCHANGED <<data1, data2, clusterVars, outlierVars, plotVars>>

DescribeNext == CustomDescribe \/ CustomDescribeFrame \/ CompareDescribe

SpecDescribe == DescribeInit /\ [][DescribeNext]_vars

----------------------------------------------------------------------------
(* Claims about compare_describe                                           *)

Compared == dcall.op = "compare_describe"
ComparedExample == Compared /\ data1 = Example1 /\ data2 = Example2

\* the columns of a Comparison Table, by position
Difference == dret.cols[3]
Ratio == dret.cols[4]
Reciprocal == dret.cols[5]
Rows == 1..Len(dret.index)
RowLabelled(label) == CHOOSE i \in Rows : dret.index[i] = label

ReducedIndex == <<"count", "mean", "std", "min", "25%", "50%", "75%", "max">>

\* C9: the table returned by compare_describe has exactly the rows count,
\* mean, std, min, 25%, 50%, 75%, max and no other row, with or without the
\* reciprocal-ratio column.
C9_ReducedRows == Compared => dret.index = ReducedIndex

\* what the code returns instead: the 16 rows of custom_describe
C9_Witness ==
    /\ ComparedExample
    /\ dret.index = DescribeIndex \o MoreIndex
    /\ Len(dret.index) = 16

ScaledRows == {"mean", "std", "min", "max"} \cup SeqSet(PercentLabels)
EqualRows == {"count", "kurtosis", "notnull"}
ZeroRows == {"skew", "isnull"}

----------------------------------------------------------------------------
(* Claims about custom_describe                                            *)

Described == dcall.op = "custom_describe"

\* the columns custom_describe was given: the Series alone, or both in a frame
InputColumns == IF dcall.frame THEN <<data1, data2>> ELSE <<data1>>
ColumnLabel(series) == IF series.name = None THEN "0" ELSE series.name[1]

----------------------------------------------------------------------------
(* Claims about the default candidates of find_optimal_clusters            *)

ScannedByDefault == Returned("find_optimal_clusters") /\ call.arg.kind = "ellipsis"
Columns0 == Len(scaled0[1])

\* C12: find_optimal_clusters called without cluster_range fits exactly the
\* candidates 1, 2, ..., number of columns, in ascending order, and returns
\* as many inertia values as the dataset has columns.
C12_DefaultCandidates ==
    ScannedByDefault =>
       /\ raised = NoError
       /\ ret.kind = "list"
       /\ Len(ret.val) = Columns0
       /\ \A i \in 1..Len(ret.val) :
             ret.val[i] = Inertia(scaled0, KMeansFit(scaled0, i, Some(42), np_random).centers)

\* a dataset with fewer rows than columns: the candidate rows + 1 is refused
\* by the library and the scan returns nothing
C12_Witness ==
    /\ ScannedByDefault
    /\ rows0 < Columns0
    /\ raised.type = "ValueError"
    /\ ret = NoReturn

----------------------------------------------------------------------------
(* Claims about a zero divisor in compare_describe                         *)

Zero == Num(0, 1)
IsFloat(x) == x.k \in {"num", "nan", "inf"}

\* the entry a row gets when its divisor is zero
OverZero(x) ==
    IF x.k = "nan" \/ x = Zero THEN NaN
    ELSE IF x.k = "inf" THEN x
    ELSE Inf(Sign(x.n))

\* C13: compare_describe never fails on a zero divisor. For every pair of
\* Series the table comes back with all its columns (4, or 5 with the
\* reciprocal ratio), each with an entry for every row; a row whose divisor
\* is 0 holds an infinity (of the dividend's sign) or, for 0 / 0 and for a
\* NaN dividend, NaN, in the ratio and in the reciprocal ratio alike.
C13_ZeroDivisor ==
    Compared =>
       /\ Len(dret.cols) = IF dcall.reciprocal_ratio THEN 5 ELSE 4
       /\ \A j \in 1..Len(dret.cols) :
             /\ Len(dret.cols[j].vals) = Len(dret.index)
             /\ \A i \in Rows : IsFloat(dret.cols[j].vals[i])
       /\ \A i \in Rows :
             dret.cols[2].vals[i] = Zero =>
                /\ Ratio.vals[i].k \in {"inf", "nan"}
                /\ Ratio.vals[i] = OverZero(dret.cols[1].vals[i])
       /\ dcall.reciprocal_ratio =>
             \A i \in Rows :
                dret.cols[1].vals[i] = Zero =>
                   /\ Reciprocal.vals[i].k \in {"inf", "nan"}
                   /\ Reciprocal.vals[i] = OverZero(dret.cols[2].vals[i])

\* a comparison with a row x / 0 for x > 0, a row x / 0 for x < 0, a row
\* 0 / 0, and a zero divisor in the reciprocal ratio
C13_Witness ==
    /\ Compared
    /\ dcall.reciprocal_ratio
    /\ \E i \in Rows : dret.cols[2].vals[i] = Zero /\ Ratio.vals[i] = Inf(1)
    /\ \E i \in Rows : dret.cols[2].vals[i] = Zero /\ Ratio.vals[i] = Inf(-1)
    /\ \E i \in Rows : dret.cols[2].vals[i] = Zero /\ dret.cols[1].vals[i] = Zero
                       /\ Ratio.vals[i] = NaN
    /\ \E i \in Rows : dret.cols[1].vals[i] = Zero /\ Reciprocal.vals[i] = Inf(1)

----------------------------------------------------------------------------
(* plots/multivariate.py: count_plot and agg_plot. A figure is its grid    *)
(* and the plots drawn into it, in the order they were drawn.              *)

MaxPlots == 5
PlotColumns == {"Category", "Status", "Value"}

\* int(np.ceil(np.sqrt(n)))
RECURSIVE CeilSqrtFrom(_, _)
CeilSqrtFrom(n, c) == IF c * c >= n THEN c ELSE CeilSqrtFrom(n, c + 1)
CeilSqrt(n) == CeilSqrtFrom(n, 0)

\* int(np.ceil(n / cols)) for cols > 0
CeilDiv(n, cols) == (n + cols - 1) \div cols

\* plt.subplots(rows, cols): with squeeze=True, the default, the axes are one
\* Axes for a 1 x 1 grid, a 1-D array if there is one row or one column, and
\* a 2-D array otherwise
subplots(rows, cols) ==
    [kind |-> IF rows = 1 /\ cols = 1 THEN "Axes"
              ELSE IF rows = 1 \/ cols = 1 THEN "1d"
              ELSE "2d",
     rows |-> rows, cols |-> cols]

\* axes[r, c]
AxesAt(axes, r, c) ==
    IF axes.kind = "Axes" THEN [err |-> "TypeError", cell |-> <<>>]
    ELSE IF axes.kind = "1d" THEN [err |-> "IndexError", cell |-> <<>>]
    ELSE IF r < axes.rows /\ c < axes.cols THEN [err |-> "none", cell |-> <<r, c>>]
    ELSE [err |-> "IndexError", cell |-> <<>>]

\* axes[i // cols, i % cols] if num_plots > 1 else axes
SelectAxes(axes, i, num_plots) ==
    IF num_plots > 1 THEN AxesAt(axes, i \div axes.cols, i % axes.cols)
    ELSE [err |-> "none", cell |-> <<0, 0>>]

\* the loop over the plots of one figure: plots[i + 1] is drawn into the
\* axes selected for i; an error ends the loop
RECURSIVE DrawLoop(_, _, _, _)
DrawLoop(axes, plots, i, drawn) ==
    IF i = Len(plots) THEN [err |-> "none", drawn |-> drawn]
    ELSE LET ax == SelectAxes(axes, i, Len(plots))
         IN  IF ax.err # "none" THEN [err |-> ax.err, drawn |-> drawn]
             ELSE DrawLoop(axes, plots, i + 1,
                           Append(drawn, [cell |-> ax.cell, x |-> plots[i + 1].x,
                                          y |-> plots[i + 1].y]))

Figure(suptitle, axes, loop) ==
    [suptitle |-> suptitle, rows |-> axes.rows, cols |-> axes.cols, drawn |-> loop.drawn]

\* count_plot(df, columns, title)
count_plot(columns, title) ==
    LET num_plots == Len(columns)
        cols == CeilSqrt(num_plots)
        rows == CeilDiv(num_plots, cols)
        axes == subplots(rows, cols)
        loop == DrawLoop(axes, [i \in 1..num_plots |-> [x |-> columns[i], y |-> ""]],
                         0, <<>>)
    IN  IF cols = 0 THEN [err |-> "ZeroDivisionError", figs |-> <<>>, shown |-> FALSE]
        ELSE [err |-> loop.err,
              figs |-> <<Figure(title, axes, loop)>>,
              shown |-> loop.err = "none"]

\* for x_col in x: for y_col in y
RECURSIVE Pairs(_, _)
Pairs(x, y) ==
    IF x = <<>> THEN <<>>
    ELSE [j \in 1..Len(y) |-> [x |-> Head(x), y |-> y[j]]] \o Pairs(Tail(x), y)

\* for method in agg: one figure per method; an error ends the call
RECURSIVE AggLoop(_, _, _, _)
AggLoop(rows, cols, plots, agg) ==
    IF agg = <<>> THEN [err |-> "none", figs |-> <<>>, shown |-> TRUE]
    ELSE LET axes == subplots(rows, cols)
             loop == DrawLoop(axes, plots, 0, <<>>)
             fig == Figure(Some(Head(agg)), axes, loop)
             rest == AggLoop(rows, cols, plots, Tail(agg))
         IN  IF loop.err # "none"
             THEN [err |-> loop.err, figs |-> <<fig>>, shown |-> FALSE]
             ELSE [err |-> rest.err, figs |-> <<fig>> \o rest.figs, shown |-> rest.shown]

\* agg_plot(df, x, y, agg)
agg_plot(x, y, agg) ==
    LET num_plots == Len(x) * Len(y)
        cols == CeilSqrt(num_plots)
    IN  IF cols = 0 THEN [err |-> "ZeroDivisionError", figs |-> <<>>, shown |-> FALSE]
        ELSE AggLoop(CeilDiv(num_plots, cols), cols, Pairs(x, y), agg)

PlotInit ==
    /\ \E n \in 0..MaxPlots : pcolumns \in [1..n -> PlotColumns]
    /\ pcall = NoPlotCall
    /\ pret = NoFigures
    /\ ClusterIdle
    /\ OutlierIdle
    /\ SummaryIdle

\* count_plot(df, columns=pcolumns, title=...)
CountPlot ==
    /\ pcall = NoPlotCall
    /\ \E title \in {None, Some("Distribution")} :
          /\ pcall' = [NoPlotCall EXCEPT !.op = "count_plot", !.title = title]
          /\ pret' = count_plot(pcolumns, title)
    /\ UNCHANGED <<pcolumns, clusterVars, outlierVars, summaryVars>>

\* agg_plot(df, x=pcolumns, y=..., agg=...)
AggPlot ==
    /\ pcall = NoPlotCall
    /\ \E y \in {<<>>, <<"Value">>, <<"Value", "Status">>},
          agg \in {<<"mean">>, <<"mean", "median">>} :
          /\ pcall' = [NoPlotCall EXCEPT !.op = "agg_plot", !.y = y, !.agg = agg]
          /\ pret' = agg_plot(pcolumns, y, agg)
    /\ UNCHANGED <<pcolumns, clusterVars, outlierVars, summaryVars>>

PlotNext == CountPlot \/ AggPlot

SpecPlots == PlotInit /\ [][PlotNext]_vars

----------------------------------------------------------------------------
(* Claims about count_plot                                                 *)

CountPlotted == pcall.op = "count_plot" /\ Len(pcolumns) >= 1

\* C14: count_plot with a non-empty list of n column names makes a grid of
\* ceil(sqrt(n)) columns by ceil(n / cols) rows and draws one count plot per
\* listed column, the i-th (from 0) into cell (i div cols, i mod cols), all
\* cells being distinct positions of the grid's axes, so that the call ends
\* without an indexing error, for every n >= 1.
C14_EveryColumnDrawn ==
    CountPlotted =>
       /\ pret.err = "none"
       /\ pret.shown
       /\ Len(pret.figs) = 1
       /\ LET fig == pret.figs[1]
              n == Len(pcolumns)
          IN  /\ fig.cols * fig.cols >= n /\ (fig.cols - 1) * (fig.cols - 1) < n
              /\ fig.rows * fig.cols >= n /\ (fig.rows - 1) * fig.cols < n
              /\ Len(fig.drawn) = n
              /\ \A i \in 1..Len(fig.drawn) :
                    /\ fig.drawn[i].x = pcolumns[i]
                    /\ fig.drawn[i].cell = <<(i - 1) \div fig.cols, (i - 1) % fig.cols>>
                    /\ fig.drawn[i].cell[1] < fig.rows
              /\ \A i, j \in 1..Len(fig.drawn) :
                    fig.drawn[i].cell = fig.drawn[j].cell => i = j

\* the call of the docstring example: two columns, a grid of one row whose
\* axes are a 1-D array, and the index [0, 0] is refused
C14_Witness ==
    /\ CountPlotted
    /\ pcolumns = <<"Category", "Status">>
    /\ pret.err = "IndexError"
    /\ pret.figs[1].rows = 1 /\ pret.figs[1].cols = 2
    /\ pret.figs[1].drawn = <<>>
    /\ ~pret.shown


====
